---- MODULE Spec2Model ----
\* Account registry of sms3-backend (src/account/mod.rs): the Account state
\* machine (Unverified / Verified, verification codes, login tokens) and the
\* AccountManager store (Vec of accounts behind an RwLock plus a DashMap index).
EXTENDS Integers, Sequences, FiniteSets, TLC

\* ---------------------------------------------------------------- bounds
\* Clock ticks the model lets pass.  The clock is abstract: durations are
\* scaled down to a few ticks, and only their order matters.
MaxTime == 2
\* Clock ticks in one day of token life time.
Day == 1
\* Tokens a single account may be issued.
MaxTokens == 2
\* Accounts the store may hold.
MaxAccounts == 3
\* Store calls one thread makes.
MaxCalls == 2

\* Duration::minutes(15) of Account::new, in clock ticks.
Window == 2

\* ------------------------------------------------------------ data model
SchoolEmails == {"a@pkuschool.edu.cn", "b@i.pkuschool.edu.cn", "c@pkuschool.edu.cn"}
Emails == SchoolEmails \cup {"user@gmail.com"}
Codes == {100000, 999998}
Passwords == {"pw", "pw2"}
Threads == {1, 2}

\* email.domain()
Domain(email) ==
    CASE email = "a@pkuschool.edu.cn" -> "pkuschool.edu.cn"
      [] email = "b@i.pkuschool.edu.cn" -> "i.pkuschool.edu.cn"
      [] email = "c@pkuschool.edu.cn" -> "pkuschool.edu.cn"
      [] OTHER -> "gmail.com"

\* The allowed institutional domains of Account::new.
DOMAINS == {"i.pkuschool.edu.cn", "pkuschool.edu.cn"}

\* DefaultHasher over the email, a 64-bit value; distinct on the emails used.
Hash(email) ==
    CASE email = "a@pkuschool.edu.cn" -> 2
      [] email = "b@i.pkuschool.edu.cn" -> 3
      [] email = "c@pkuschool.edu.cn" -> 4
      [] OTHER -> 5

Ids == {Hash(e) : e \in Emails}

\* sha256::digest of a password: a hex string, distinct for distinct passwords.
digest(password) ==
    CASE password = "pw" -> "sha:30c952fab122c3f9"
      [] password = "pw2" -> "sha:8e1b0a1f9c2d5e47"
      [] OTHER -> "sha:other"

\* verify::Context { email, code, expire_time }
Context(email, code, expire_time) ==
    [email |-> email, code |-> code, expire_time |-> expire_time]

NoContext == Context("", 0, 0)

\* verify::Context::is_expired: now >= expire_time.
is_expired(cxt, t) == t >= cxt.expire_time

\* UserVerifyVariant
VerifyNone == [tag |-> "None", cxt |-> NoContext]
ForgetPassword(cxt) == [tag |-> "ForgetPassword", cxt |-> cxt]

\* UserAttributes (the fields the transitions read)
Attributes(email, password_sha, days) ==
    [email |-> email, password_sha |-> password_sha, token_expiration_time |-> days,
     permissions |-> <<>>]

NoAttributes == Attributes("", "", 0)

\* The emails a registration request is tried with, and the attributes an
\* activation request may carry.
RegisterEmails == {"a@pkuschool.edu.cn", "user@gmail.com"}
AttributeInputs ==
    {Attributes(e, digest("pw"), d) :
        e \in {"a@pkuschool.edu.cn", "b@i.pkuschool.edu.cn"}, d \in {0, 1}}

\* enum Account
Unverified(cxt) ==
    [tag |-> "Unverified", cxt |-> cxt, id |-> 0, attributes |-> NoAttributes,
     tokens |-> {}, verify |-> VerifyNone]

Verified(i, attributes, tokens, v) ==
    [tag |-> "Verified", cxt |-> NoContext, id |-> i, attributes |-> attributes,
     tokens |-> tokens, verify |-> v]

\* No account value: the slot before registration and after removal.
Absent ==
    [tag |-> "Absent", cxt |-> NoContext, id |-> 0, attributes |-> NoAttributes,
     tokens |-> {}, verify |-> VerifyNone]

\* Account::id
id(a) == IF a.tag = "Unverified" THEN Hash(a.cxt.email) ELSE a.id

\* ------------------------------------------------------------- verify::Tokens
\* A token: its string, and its expiry (never = TRUE for expiration 0).
Token(t, days, t0) == [tok |-> t, never |-> (days = 0), expire |-> t0 + days * Day]

\* Tokens::new_token: inserts a freshly generated token.
new_token(tokens, t, days, t0) == tokens \cup {Token(t, days, t0)}

\* Tokens::remove: deletes the token if present.
tokens_remove(tokens, t) == {k \in tokens : k.tok # t}

TokenStrings(tokens) == {k.tok : k \in tokens}

\* Tokens::refresh: deletes every token whose expiry has passed.
tokens_refresh(tokens, t) == {k \in tokens : k.never \/ t < k.expire}

\* -------------------------------------------------------- Account transitions
Result(a, res) == [acct |-> a, res |-> res]

\* AccountVerifyVariant
Activate(attributes) == [kind |-> "Activate", attributes |-> attributes, password |-> ""]
ResetPassword(password) ==
    [kind |-> "ResetPassword", attributes |-> NoAttributes, password |-> password]

\* Account::new
new(email, code, t) ==
    IF Domain(email) \notin DOMAINS
    THEN Result(Absent, "EmailDomainNotInSchool")
    ELSE Result(Unverified(Context(email, code, t + Window)), "Ok")

\* Account::verify without the comparison of the activation code.
verify_any_code(a, verify_code, variant) ==
    IF variant.kind = "Activate" /\ a.tag = "Unverified"
    THEN Result(Verified(Hash(variant.attributes.email), variant.attributes, {}, VerifyNone),
                "Ok")
    ELSE Result(a, "UserRegistered")

\* Account::verify activating whatever the variant of the account is.
verify_again(a, verify_code, variant) ==
    IF variant.kind = "Activate" /\ (a.tag = "Verified" \/ a.cxt.code = verify_code)
    THEN Result(Verified(Hash(variant.attributes.email), variant.attributes, {}, VerifyNone),
                "Ok")
    ELSE Result(a, "VerificationCode")

\* Account::verify that stores the new password and leaves verify as it was.
verify_keeps_request(a, verify_code, variant) ==
    IF variant.kind = "Activate"
    THEN IF a.tag = "Unverified"
         THEN IF a.cxt.code # verify_code
              THEN Result(a, "VerificationCode")
              ELSE Result(Verified(Hash(variant.attributes.email), variant.attributes,
                                   {}, VerifyNone), "Ok")
         ELSE Result(a, "UserRegistered")
    ELSE IF a.tag = "Verified"
         THEN IF a.verify.tag = "None"
              THEN Result(a, "PermissionDenied")
              ELSE IF a.verify.cxt.code # verify_code
                   THEN Result(a, "VerificationCode")
                   ELSE Result([a EXCEPT !.attributes.password_sha = digest(variant.password)],
                               "Ok")
         ELSE Result(a, "UserUnverified")

\* Account::verify
verify(a, verify_code, variant) ==
    IF variant.kind = "Activate"
    THEN IF a.tag = "Unverified"
         THEN IF a.cxt.code # verify_code
              THEN Result(a, "VerificationCode")
              ELSE Result(Verified(Hash(variant.attributes.email), variant.attributes,
                                   {}, VerifyNone), "Ok")
         ELSE Result(a, "UserRegistered")
    ELSE IF a.tag = "Verified"
         THEN IF a.verify.tag = "None"
              THEN Result(a, "PermissionDenied")
              ELSE IF a.verify.cxt.code # verify_code
                   THEN Result(a, "VerificationCode")
                   ELSE Result([a EXCEPT !.attributes.password_sha = digest(variant.password),
                                         !.verify = VerifyNone], "Ok")
         ELSE Result(a, "UserUnverified")

\* Account::login; t is the token string the token set generates, t0 the time.
login(a, password, t, t0) ==
    IF a.tag = "Unverified"
    THEN Result(a, "UserUnverified")
    ELSE IF digest(password) = a.attributes.password_sha
         THEN Result([a EXCEPT !.tokens =
                          new_token(a.tokens, t, a.attributes.token_expiration_time, t0)],
                     "Ok")
         ELSE Result(a, "PasswordIncorrect")

\* Account::logout that reports success and leaves the token in the set.
logout_keeps_token(a, t) ==
    IF a.tag = "Unverified"
    THEN Result(a, "UserUnverified")
    ELSE IF t \in TokenStrings(a.tokens)
         THEN Result(a, "Ok")
         ELSE Result(a, "TokenIncorrect")

\* Account::logout
logout(a, t) ==
    IF a.tag = "Unverified"
    THEN Result(a, "UserUnverified")
    ELSE IF t \in TokenStrings(a.tokens)
         THEN Result([a EXCEPT !.tokens = tokens_remove(a.tokens, t)], "Ok")
         ELSE Result(a, "TokenIncorrect")

\* request_password_reset: installs a new context as verify = ForgetPassword.
request_password_reset(a, code, t) ==
    IF a.tag = "Verified"
    THEN Result([a EXCEPT !.verify =
                     ForgetPassword(Context(a.attributes.email, code, t + Window))], "Ok")
    ELSE Result(a, "UserUnverified")

\* The sweep clearing every pending password reset, expired or not.
refresh_account_clears_request(a, t) ==
    IF a.tag = "Verified"
    THEN [a EXCEPT !.tokens = tokens_refresh(a.tokens, t), !.verify = VerifyNone]
    ELSE a

\* The sweep treating an expired password reset like an expired registration:
\* the account goes back to Unverified under the expired context.
refresh_account_unverifies(a, t) ==
    IF a.tag = "Verified"
    THEN IF a.verify.tag = "ForgetPassword" /\ is_expired(a.verify.cxt, t)
         THEN Unverified(a.verify.cxt)
         ELSE [a EXCEPT !.tokens = tokens_refresh(a.tokens, t)]
    ELSE a

\* The per-account part of the sweep: AccountManager::refresh_all / refresh on
\* one account.  An expired Unverified account is dropped; a Verified account
\* has its tokens refreshed and an expired ForgetPassword context cleared.
refresh_account(a, t) ==
    IF a.tag = "Verified"
    THEN [a EXCEPT !.tokens = tokens_refresh(a.tokens, t),
                   !.verify = IF a.verify.tag = "ForgetPassword" /\ is_expired(a.verify.cxt, t)
                              THEN VerifyNone ELSE a.verify]
    ELSE a

expired_unverified(a, t) == a.tag = "Unverified" /\ is_expired(a.cxt, t)

\* ------------------------------------------------------------------ state
VARIABLES
    acct,        \* the account whose life cycle Spec follows
    now,         \* Utc::now()
    nextToken,   \* how many token strings have been generated
    revoked,     \* token strings a logout has accepted
    swept,       \* token strings a token refresh has deleted
    last,        \* the last call on acct: operation, arguments, result, prior value
    accounts,    \* AccountManager.accounts: the Vec of accounts
    index,       \* AccountManager.index: id -> position
    pc,          \* each thread's position in its store call
    loc,         \* each thread's local variables
    accReaders,  \* read guards each thread holds on accounts
    guards,      \* ids whose index entry each thread holds a Ref to
    panics,      \* whether a store call has panicked
    calls,       \* how many store calls each thread has begun
    orig,        \* the collection when the calls observed began, and the ids removed
    disk,        \* the files of ./data/accounts
    tasks,       \* background tasks spawned and not yet run
    saved        \* ids of the accounts save() has been called on

acctVars == <<acct, now, nextToken, revoked, swept, last>>
storeVars == <<accounts, index, pc, loc, accReaders, guards, panics, calls, orig>>
diskVars == <<disk, tasks, saved>>
vars == <<acct, now, nextToken, revoked, swept, last,
          accounts, index, pc, loc, accReaders, guards, panics, calls, orig,
          disk, tasks, saved>>

\* --------------------------------------------------- one account's life cycle
Call(op, res, pre, code, pw, tok) ==
    [op |-> op, res |-> res, pre |-> pre, code |-> code, pw |-> pw, tok |-> tok]

NoCall == Call("none", "Ok", Absent, 0, "", 0)

\* Thread-local variables of a store call.
Locals(op, i, a, idx, rm_list, k, n, nested) ==
    [op |-> op, id |-> i, acct |-> a, idx |-> idx, rm_list |-> rm_list,
     k |-> k, n |-> n, nested |-> nested]

NoLocals == Locals("none", 0, Absent, 0, <<>>, 0, 0, FALSE)

NoOrig == [accounts |-> <<>>, removed |-> {}]

\* No file, no background task, no save yet.
DiskIdle ==
    /\ disk = {}
    /\ tasks = {}
    /\ saved = {}

StoreIdle ==
    /\ accounts = <<>>
    /\ index = <<>>
    /\ pc = [t \in Threads |-> "idle"]
    /\ loc = [t \in Threads |-> NoLocals]
    /\ accReaders = [t \in Threads |-> 0]
    /\ guards = [t \in Threads |-> <<>>]
    /\ panics = FALSE
    /\ calls = [t \in Threads |-> 0]
    /\ orig = NoOrig

Init ==
    /\ acct = Absent
    /\ DiskIdle
    /\ now = 0
    /\ nextToken = 0
    /\ revoked = {}
    /\ swept = {}
    /\ last = NoCall
    /\ StoreIdle

\* Account::new on a registration request.
Register ==
    \E email \in RegisterEmails, code \in Codes :
        /\ acct.tag = "Absent"
        /\ acct' = new(email, code, now).acct
        /\ last' = Call("register", new(email, code, now).res, acct, code, "", 0)
        /\ UNCHANGED <<now, nextToken, revoked, swept>>
        /\ UNCHANGED <<storeVars, diskVars>>

\* Account::verify with AccountVerifyVariant::Activate.
ActivateCall ==
    \E code \in Codes, attributes \in AttributeInputs :
        /\ acct.tag # "Absent"
        /\ acct' = verify(acct, code, Activate(attributes)).acct
        /\ last' = Call("activate", verify(acct, code, Activate(attributes)).res,
                        acct, code, "", 0)
        /\ UNCHANGED <<now, nextToken, revoked, swept>>
        /\ UNCHANGED <<storeVars, diskVars>>

RequestPasswordReset ==
    \E code \in Codes :
        /\ acct.tag # "Absent"
        /\ acct' = request_password_reset(acct, code, now).acct
        /\ last' = Call("request_password_reset",
                        request_password_reset(acct, code, now).res, acct, code, "", 0)
        /\ UNCHANGED <<now, nextToken, revoked, swept>>
        /\ UNCHANGED <<storeVars, diskVars>>

\* Account::verify with AccountVerifyVariant::ResetPassword.
ResetPasswordCall ==
    \E code \in Codes, password \in Passwords :
        /\ acct.tag # "Absent"
        /\ acct' = verify(acct, code, ResetPassword(password)).acct
        /\ last' = Call("reset_password",
                        verify(acct, code, ResetPassword(password)).res,
                        acct, code, password, 0)
        /\ UNCHANGED <<now, nextToken, revoked, swept>>
        /\ UNCHANGED <<storeVars, diskVars>>

Login ==
    \E password \in Passwords :
        /\ acct.tag # "Absent"
        /\ nextToken < MaxTokens
        /\ LET r == login(acct, password, nextToken + 1, now) IN
            /\ acct' = r.acct
            /\ nextToken' = IF r.res = "Ok" THEN nextToken + 1 ELSE nextToken
            /\ last' = Call("login", r.res, acct, 0, password,
                            IF r.res = "Ok" THEN nextToken + 1 ELSE 0)
        /\ UNCHANGED <<now, revoked, swept>>
        /\ UNCHANGED <<storeVars, diskVars>>

Logout ==
    \E t \in 1..MaxTokens :
        /\ acct.tag # "Absent"
        /\ acct' = logout(acct, t).acct
        /\ revoked' = IF logout(acct, t).res = "Ok" THEN revoked \cup {t} ELSE revoked
        /\ last' = Call("logout", logout(acct, t).res, acct, 0, "", t)
        /\ UNCHANGED <<now, nextToken, swept>>
        /\ UNCHANGED <<storeVars, diskVars>>

\* The sweep reaching this account (refresh_all, or refresh of its id).
Sweep ==
    /\ acct.tag # "Absent"
    /\ acct' = IF expired_unverified(acct, now) THEN Absent ELSE refresh_account(acct, now)
    /\ swept' = swept \cup (TokenStrings(acct.tokens) \ TokenStrings(acct'.tokens))
    /\ last' = Call("refresh", "Ok", acct, 0, "", 0)
    /\ UNCHANGED <<now, nextToken, revoked>>
    /\ UNCHANGED <<storeVars, diskVars>>

\* Time passes; last describes a call made at the current time only.
Tick ==
    /\ now < MaxTime
    /\ now' = now + 1
    /\ last' = NoCall
    /\ UNCHANGED <<acct, nextToken, revoked, swept>>
    /\ UNCHANGED <<storeVars, diskVars>>

Next ==
    \/ Register
    \/ ActivateCall
    \/ RequestPasswordReset
    \/ ResetPasswordCall
    \/ Login
    \/ Logout
    \/ Sweep
    \/ Tick

Spec == Init /\ [][Next]_vars

\* ------------------------------------------------------ claims on one account
\* C1: a successful activate leaves id() as it was before the call, whatever
\* attributes the caller supplies.
C1_IdStableAcrossActivation ==
    (last.op = "activate" /\ last.res = "Ok") => id(acct) = id(last.pre)

\* C3: activate on an Unverified account and reset_password on a Verified
\* account with verify = ForgetPassword do not succeed once the context is
\* expired (now >= expire_time), and then leave the account unchanged.
C3_ExpiredCodeNeverAccepted ==
    /\ (last.op = "activate" /\ last.pre.tag = "Unverified"
            /\ is_expired(last.pre.cxt, now))
        => (last.res # "Ok" /\ acct = last.pre)
    /\ (last.op = "reset_password" /\ last.pre.tag = "Verified"
            /\ last.pre.verify.tag = "ForgetPassword"
            /\ is_expired(last.pre.verify.cxt, now))
        => (last.res # "Ok" /\ acct = last.pre)

\* The tokens a logout had accepted before the last call.
RevokedBefore ==
    IF last.op = "logout" /\ last.res = "Ok" THEN revoked \ {last.tok} ELSE revoked

\* C7, as stated: a logout with a token that a login of this account returned
\* succeeds and revokes it when no earlier logout accepted it, fails
\* TokenIncorrect when one did, and leaves the other tokens valid.
C7_LogoutExactlyOnce ==
    (last.op = "logout" /\ last.tok \in 1..nextToken) =>
        /\ last.tok \notin RevokedBefore =>
              (last.res = "Ok" /\ last.tok \notin TokenStrings(acct.tokens))
        /\ last.tok \in RevokedBefore => last.res = "TokenIncorrect"
        /\ {k \in last.pre.tokens : k.tok # last.tok} \subseteq acct.tokens

\* C7, amended: a token that a login returned is accepted by at most one later
\* logout.  A logout succeeds exactly when the token is still in the set, which
\* it is until a logout accepts it or a token refresh deletes it as expired; it
\* then removes that token and no other; a token a logout accepted is never in
\* the set again, so every later logout with it fails TokenIncorrect.
C7_LogoutAtMostOnce ==
    /\ (last.op = "logout" /\ last.pre.tag = "Verified") =>
          /\ (last.res = "Ok") <=> (last.tok \in TokenStrings(last.pre.tokens))
          /\ last.res = "Ok" =>
                /\ acct.tokens = {k \in last.pre.tokens : k.tok # last.tok}
                /\ last.tok \notin RevokedBefore
          /\ last.res # "Ok" => (last.res = "TokenIncorrect" /\ acct = last.pre)
    /\ \A t \in revoked :
          /\ t \notin TokenStrings(acct.tokens)
          /\ logout(acct, t).res # "Ok"
    /\ \A t \in 1..nextToken :
          (t \notin revoked /\ t \notin swept) => logout(acct, t).res = "Ok"

\* A second logout with a token the first logout accepted, while another token
\* of the account is still valid.
C7_Witness ==
    /\ last.op = "logout"
    /\ last.res = "TokenIncorrect"
    /\ last.tok \in revoked
    /\ acct.tokens # {}

\* C8: activate with a code other than the stored one fails VerificationCode
\* and leaves the account Unverified with the same email, code and expiry; an
\* activate with the stored code then still succeeds.
C8_WrongCodeLeavesUnverified ==
    (last.op = "activate" /\ last.pre.tag = "Unverified"
        /\ last.code # last.pre.cxt.code) =>
        /\ last.res = "VerificationCode"
        /\ acct = last.pre
        /\ \A attributes \in AttributeInputs :
              verify(acct, acct.cxt.code, Activate(attributes)).res = "Ok"

C8_Witness ==
    /\ last.op = "activate"
    /\ last.res = "VerificationCode"
    /\ acct.tag = "Unverified"
    /\ last.code # acct.cxt.code

\* C9: activate succeeds only on an Unverified account; on a Verified account
\* it fails UserRegistered, with any code and attributes, and leaves id,
\* attributes, tokens and verify-state unchanged.
C9_ActivateAtMostOnce ==
    last.op = "activate" =>
        /\ last.res = "Ok" => (last.pre.tag = "Unverified" /\ acct.tag = "Verified")
        /\ last.pre.tag = "Verified" => (last.res = "UserRegistered" /\ acct = last.pre)

\* A rejected activate on a Verified account that holds a token and a reset request.
C9_Witness ==
    /\ last.op = "activate"
    /\ last.res = "UserRegistered"
    /\ acct.tag = "Verified"
    /\ acct.tokens # {}
    /\ acct.verify.tag = "ForgetPassword"

\* C10: reset_password fails PermissionDenied on a Verified account with
\* verify = None and UserUnverified on an Unverified one, changing nothing;
\* with verify = ForgetPassword and the matching code it succeeds and sets
\* verify = None, after which login succeeds with the new password only and a
\* second reset_password with the same code fails PermissionDenied.
C10_ResetPassword ==
    last.op = "reset_password" =>
        /\ (last.pre.tag = "Verified" /\ last.pre.verify.tag = "None")
              => (last.res = "PermissionDenied" /\ acct = last.pre)
        /\ last.pre.tag = "Unverified"
              => (last.res = "UserUnverified" /\ acct = last.pre)
        /\ (last.pre.tag = "Verified" /\ last.pre.verify.tag = "ForgetPassword"
                /\ last.code = last.pre.verify.cxt.code)
              => /\ last.res = "Ok"
                 /\ acct.verify = VerifyNone
                 /\ login(acct, last.pw, nextToken + 1, now).res = "Ok"
                 /\ \A p \in Passwords \ {last.pw} :
                       login(acct, p, nextToken + 1, now).res = "PasswordIncorrect"
                 /\ verify(acct, last.code, ResetPassword(last.pw)).res = "PermissionDenied"

\* A successful reset that replaced the password by a different one.
C10_Witness ==
    /\ last.op = "reset_password"
    /\ last.res = "Ok"
    /\ last.pre.attributes.password_sha # acct.attributes.password_sha

\* C12: the variant of an account only moves forward.  A Verified account is
\* still Verified after login, logout, a password reset request, a password
\* reset, activate and the sweep; an Unverified account becomes Verified only
\* by an activate that succeeds.
C12_VariantMovesForward ==
    [][/\ acct.tag = "Verified" => acct'.tag = "Verified"
       /\ (acct.tag = "Unverified" /\ acct'.tag = "Verified")
              => (last'.op = "activate" /\ last'.res = "Ok")]_vars

\* The sweep has cleared an expired password reset of a Verified account.
C12_Witness ==
    /\ last.op = "refresh"
    /\ last.pre.tag = "Verified"
    /\ last.pre.verify.tag = "ForgetPassword"
    /\ acct.tag = "Verified"
    /\ acct.verify.tag = "None"

\* ------------------------------------------------------------ AccountManager
\* The store under concurrent calls.  accounts is guarded by an RwLock: a read
\* guard is counted in accReaders while a thread holds it across steps, and a
\* write happens in one step that needs accReaders to be all zero.  index is a
\* DashMap: get returns a Ref that keeps the entry's shard read-locked
\* (guards), and insert / clear need the shard free of Refs.

\* Shards of the DashMap, and the shard an id falls in.
NShards == 2
ShardOf(i) == i % NShards

ShardFree(s) ==
    \A u \in Threads : \A j \in 1..Len(guards[u]) : ShardOf(guards[u][j]) # s

NoReaders == \A u \in Threads : accReaders[u] = 0

\* DashMap::insert
IndexInsert(ix, k, v) == [x \in DOMAIN ix \cup {k} |-> IF x = k THEN v ELSE ix[x]]

\* DashMap::clear on one shard
IndexClearShard(ix, s) == [x \in {y \in DOMAIN ix : ShardOf(y) # s} |-> ix[x]]

\* Vec::remove at a 0-based position below the length.
VecRemove(v, p) == SubSeq(v, 1, p) \o SubSeq(v, p + 2, Len(v))

\* The accounts a store call may be given: two accounts as registered at time
\* 0 and one as activated.
AccountPool ==
    {Unverified(Context(e, 100000, Window)) :
        e \in {"a@pkuschool.edu.cn", "b@i.pkuschool.edu.cn"}}
        \cup {Verified(Hash(e), Attributes(e, digest("pw"), 0), {}, VerifyNone) :
                 e \in {"c@pkuschool.edu.cn"}}

StoreIds == {Hash(e) : e \in SchoolEmails}

\* AccountManager::update_index run on a quiet store.
IndexOf(v) ==
    [i \in {id(v[p]) : p \in 1..Len(v)} |->
        (CHOOSE p \in 1..Len(v) : id(v[p]) = i /\ \A q \in (p + 1)..Len(v) : id(v[q]) # i) - 1]

\* The stores a sequence of pushes of accounts with distinct ids builds.
QuietStores ==
    {v \in UNION {[1..n -> AccountPool] : n \in 0..MaxAccounts} :
        \A p, q \in 1..Len(v) : p # q => id(v[p]) # id(v[q])}

InitStore ==
    /\ acct = Absent
    /\ DiskIdle
    /\ nextToken = 0
    /\ revoked = {}
    /\ swept = {}
    /\ last = NoCall
    /\ now \in {0, Window}
    /\ accounts \in QuietStores
    /\ index = IndexOf(accounts)
    /\ pc = [t \in Threads |-> "idle"]
    /\ loc = [t \in Threads |-> NoLocals]
    /\ accReaders = [t \in Threads |-> 0]
    /\ guards = [t \in Threads |-> <<>>]
    /\ panics = FALSE
    /\ calls = [t \in Threads |-> 0]
    /\ orig = NoOrig

\* The call of thread t ends: its locals and guards are dropped.
Return(t) ==
    /\ pc' = [pc EXCEPT ![t] = "idle"]
    /\ loc' = [loc EXCEPT ![t] = NoLocals]
    /\ accReaders' = [accReaders EXCEPT ![t] = 0]
    /\ guards' = [guards EXCEPT ![t] = <<>>]

\* The call of thread t panics: unwinding drops its guards.
Panic(t) ==
    /\ Return(t)
    /\ panics' = TRUE

Goto(t, label) == pc' = [pc EXCEPT ![t] = label]

\* A thread begins a call on the store.
CallPush(t) ==
    \E a \in AccountPool :
        /\ pc[t] = "idle"
        /\ calls[t] < MaxCalls
        /\ calls' = [calls EXCEPT ![t] = @ + 1]
        /\ Len(accounts) < MaxAccounts
        /\ Goto(t, "push_len")
        /\ loc' = [loc EXCEPT ![t] = Locals("push", id(a), a, 0, <<>>, 0, 0, FALSE)]
        /\ UNCHANGED <<accounts, index, accReaders, guards, panics, orig>>
        /\ UNCHANGED <<acctVars, diskVars>>

CallRemove(t) ==
    \E i \in StoreIds :
        /\ pc[t] = "idle"
        /\ calls[t] < MaxCalls
        /\ calls' = [calls EXCEPT ![t] = @ + 1]
        /\ Goto(t, "rm_get")
        /\ loc' = [loc EXCEPT ![t] = Locals("remove", i, Absent, 0, <<>>, 0, 0, FALSE)]
        /\ UNCHANGED <<accounts, index, accReaders, guards, panics, orig>>
        /\ UNCHANGED <<acctVars, diskVars>>

CallRefreshAll(t) ==
    /\ pc[t] = "idle"
    /\ calls[t] < MaxCalls
    /\ calls' = [calls EXCEPT ![t] = @ + 1]
    /\ Goto(t, "ra_collect")
    /\ loc' = [loc EXCEPT ![t] = Locals("refresh_all", 0, Absent, 0, <<>>, 0, 0, FALSE)]
    /\ UNCHANGED <<accounts, index, accReaders, guards, panics, orig>>
    /\ UNCHANGED <<acctVars, diskVars>>

CallRefresh(t) ==
    \E i \in StoreIds :
        /\ pc[t] = "idle"
        /\ calls[t] < MaxCalls
        /\ calls' = [calls EXCEPT ![t] = @ + 1]
        /\ Goto(t, "rf_get")
        /\ loc' = [loc EXCEPT ![t] = Locals("refresh", i, Absent, 0, <<>>, 0, 0, FALSE)]
        /\ UNCHANGED <<accounts, index, accReaders, guards, panics, orig>>
        /\ UNCHANGED <<acctVars, diskVars>>

\* AccountManager::push, line 495: self.accounts.read().len(); the read guard
\* lives until index.insert has returned.
PushLen(t) ==
    /\ pc[t] = "push_len"
    /\ Goto(t, "push_insert")
    /\ loc' = [loc EXCEPT ![t].n = Len(accounts)]
    /\ accReaders' = [accReaders EXCEPT ![t] = @ + 1]
    /\ UNCHANGED <<accounts, index, guards, panics, calls, orig>>
    /\ UNCHANGED <<acctVars, diskVars>>

\* AccountManager::push, lines 493-496: index.insert(id, len) and the assert
\* on the value it replaced.
PushInsert(t) ==
    /\ pc[t] = "push_insert"
    /\ ShardFree(ShardOf(loc[t].id))
    /\ index' = IndexInsert(index, loc[t].id, loc[t].n)
    /\ IF loc[t].id \in DOMAIN index
       THEN Panic(t)
       ELSE /\ Goto(t, "push_write")
            /\ accReaders' = [accReaders EXCEPT ![t] = @ - 1]
            /\ UNCHANGED <<loc, guards, panics>>
    /\ UNCHANGED <<accounts, calls, orig>>
    /\ UNCHANGED <<acctVars, diskVars>>

\* AccountManager::push, line 497: self.accounts.write().push(account).
PushWrite(t) ==
    /\ pc[t] = "push_write"
    /\ NoReaders
    /\ accounts' = Append(accounts, loc[t].acct)
    /\ Return(t)
    /\ UNCHANGED <<index, panics, calls, orig>>
    /\ UNCHANGED <<acctVars, diskVars>>

\* AccountManager::remove, line 480: self.index.get(&id).
RmGet(t) ==
    /\ pc[t] = "rm_get"
    /\ IF loc[t].id \in DOMAIN index
       THEN /\ Goto(t, "rm_side")
            /\ loc' = [loc EXCEPT ![t].idx = index[loc[t].id]]
            /\ guards' = [guards EXCEPT ![t] = Append(@, loc[t].id)]
       ELSE /\ Goto(t, "ui_clear")
            /\ loc' = [loc EXCEPT ![t].k = 0]
            /\ UNCHANGED guards
    /\ UNCHANGED <<accounts, index, accReaders, panics, calls, orig>>
    /\ UNCHANGED <<acctVars, diskVars>>

\* AccountManager::remove, lines 482-483: b.get(*index).unwrap().read().remove().
RmSide(t) ==
    /\ pc[t] = "rm_side"
    /\ IF loc[t].idx >= Len(accounts)
       THEN Panic(t)
       ELSE /\ Goto(t, "rm_write")
            /\ UNCHANGED <<loc, accReaders, guards, panics>>
    /\ UNCHANGED <<accounts, index, calls, orig>>
    /\ UNCHANGED <<acctVars, diskVars>>

\* AccountManager::remove, line 485: self.accounts.write().remove(*index); the
\* Ref of line 480 is dropped at the end of the if let.
RmWrite(t) ==
    /\ pc[t] = "rm_write"
    /\ NoReaders
    /\ IF loc[t].idx >= Len(accounts)
       THEN /\ Panic(t)
            /\ UNCHANGED accounts
       ELSE /\ accounts' = VecRemove(accounts, loc[t].idx)
            /\ Goto(t, "ui_clear")
            /\ loc' = [loc EXCEPT ![t].k = 0]
            /\ guards' = [guards EXCEPT ![t] = SubSeq(@, 1, Len(@) - 1)]
            /\ UNCHANGED <<accReaders, panics>>
    /\ UNCHANGED <<index, calls, orig>>
    /\ UNCHANGED <<acctVars, diskVars>>

\* AccountManager::update_index, line 390: self.index.clear(), shard by shard.
UiClear(t) ==
    /\ pc[t] = "ui_clear"
    /\ ShardFree(loc[t].k)
    /\ index' = IndexClearShard(index, loc[t].k)
    /\ IF loc[t].k + 1 < NShards
       THEN /\ loc' = [loc EXCEPT ![t].k = @ + 1]
            /\ UNCHANGED pc
       ELSE /\ loc' = [loc EXCEPT ![t].k = 0]
            /\ Goto(t, "ui_read")
    /\ UNCHANGED <<accounts, accReaders, guards, panics, calls, orig>>
    /\ UNCHANGED <<acctVars, diskVars>>

\* AccountManager::update_index, line 391: self.accounts.read(), held for the loop.
UiRead(t) ==
    /\ pc[t] = "ui_read"
    /\ Goto(t, "ui_insert")
    /\ accReaders' = [accReaders EXCEPT ![t] = @ + 1]
    /\ UNCHANGED <<accounts, index, loc, guards, panics, calls, orig>>
    /\ UNCHANGED <<acctVars, diskVars>>

\* Where update_index returns to.
AfterUpdateIndex(t) ==
    IF loc[t].op = "refresh_all" THEN "ra_tokens"
    ELSE IF loc[t].nested THEN "rf_second"
    ELSE "idle"

\* AccountManager::update_index, lines 391-393: one turn of the loop, or its end.
UiInsert(t) ==
    /\ pc[t] = "ui_insert"
    /\ IF loc[t].k < Len(accounts)
       THEN /\ ShardFree(ShardOf(id(accounts[loc[t].k + 1])))
            /\ index' = IndexInsert(index, id(accounts[loc[t].k + 1]), loc[t].k)
            /\ loc' = [loc EXCEPT ![t].k = @ + 1]
            /\ UNCHANGED <<pc, accReaders, guards>>
       ELSE /\ UNCHANGED index
            /\ IF AfterUpdateIndex(t) = "idle"
               THEN Return(t)
               ELSE /\ Goto(t, AfterUpdateIndex(t))
                    /\ accReaders' = [accReaders EXCEPT ![t] = @ - 1]
                    /\ UNCHANGED <<loc, guards>>
    /\ UNCHANGED <<accounts, panics, calls, orig>>
    /\ UNCHANGED <<acctVars, diskVars>>

\* rm_list collecting every Unverified account, expired or not.
RmList_every_unverified(v, t0) ==
    LET S == {p \in 1..Len(v) : v[p].tag = "Unverified"}
        sorted[n \in 0..Cardinality(S)] ==
            IF n = 0 THEN <<>>
            ELSE LET m == CHOOSE x \in S :
                         Cardinality({y \in S : y < x}) = n - 1
                 IN Append(sorted[n - 1], m - 1)
    IN sorted[Cardinality(S)]

\* The positions refresh_all collects: the expired Unverified accounts.
RmList(v, t0) ==
    LET S == {p \in 1..Len(v) : expired_unverified(v[p], t0)}
        sorted[n \in 0..Cardinality(S)] ==
            IF n = 0 THEN <<>>
            ELSE LET m == CHOOSE x \in S :
                         Cardinality({y \in S : y < x}) = n - 1
                 IN Append(sorted[n - 1], m - 1)
    IN sorted[Cardinality(S)]

\* The removal loop without the shift by the removals already made:
\* w.remove(*i.1) for each entry of rm_list.
RECURSIVE RemoveListed_unshifted(_, _, _)
RemoveListed_unshifted(v, rm_list, n) ==
    IF n >= Len(rm_list)
    THEN [vec |-> v, panic |-> FALSE]
    ELSE IF rm_list[n + 1] >= Len(v)
         THEN [vec |-> v, panic |-> TRUE]
         ELSE RemoveListed_unshifted(VecRemove(v, rm_list[n + 1]), rm_list, n + 1)

\* The removal loop stopping after the first entry of rm_list.
RemoveListed_first_only(v, rm_list, n) ==
    IF n >= Len(rm_list) \/ rm_list[n + 1] >= Len(v)
    THEN [vec |-> v, panic |-> FALSE]
    ELSE [vec |-> VecRemove(v, rm_list[n + 1]), panic |-> FALSE]

\* AccountManager::refresh_all, lines 420-422: w.remove(*i.1 - i.0) for each
\* entry of rm_list; Vec::remove panics on a position that is out of range.
RECURSIVE RemoveListed(_, _, _)
RemoveListed(v, rm_list, n) ==
    IF n >= Len(rm_list)
    THEN [vec |-> v, panic |-> FALSE]
    ELSE IF rm_list[n + 1] - n >= Len(v) \/ rm_list[n + 1] - n < 0
         THEN [vec |-> v, panic |-> TRUE]
         ELSE RemoveListed(VecRemove(v, rm_list[n + 1] - n), rm_list, n + 1)

\* AccountManager::refresh_all, lines 402-415: rm_list, under the read guard.
RaCollect(t) ==
    /\ pc[t] = "ra_collect"
    /\ Goto(t, "ra_write")
    /\ loc' = [loc EXCEPT ![t].rm_list = RmList(accounts, now)]
    /\ UNCHANGED <<accounts, index, accReaders, guards, panics, calls, orig>>
    /\ UNCHANGED <<acctVars, diskVars>>

\* AccountManager::refresh_all, lines 417-427: the removals under the write guard.
RaWrite(t) ==
    /\ pc[t] = "ra_write"
    /\ NoReaders
    /\ accounts' = RemoveListed(accounts, loc[t].rm_list, 0).vec
    /\ IF RemoveListed(accounts, loc[t].rm_list, 0).panic
       THEN Panic(t)
       ELSE /\ Goto(t, IF loc[t].rm_list # <<>> THEN "ui_clear" ELSE "ra_tokens")
            /\ loc' = [loc EXCEPT ![t].k = 0]
            /\ UNCHANGED <<accReaders, guards, panics>>
    /\ UNCHANGED <<index, calls, orig>>
    /\ UNCHANGED <<acctVars, diskVars>>

\* AccountManager::refresh_all, lines 430-443: the second sweep.
RaTokens(t) ==
    /\ pc[t] = "ra_tokens"
    /\ accounts' = [p \in 1..Len(accounts) |-> refresh_account(accounts[p], now)]
    /\ Return(t)
    /\ UNCHANGED <<index, panics, calls, orig>>
    /\ UNCHANGED <<acctVars, diskVars>>

\* AccountManager::refresh, line 453: self.index.get(&id).
RfGet(t) ==
    /\ pc[t] = "rf_get"
    /\ IF loc[t].id \in DOMAIN index
       THEN /\ Goto(t, "rf_read")
            /\ loc' = [loc EXCEPT ![t].idx = index[loc[t].id]]
            /\ guards' = [guards EXCEPT ![t] = Append(@, loc[t].id)]
            /\ UNCHANGED accReaders
       ELSE Return(t)
    /\ UNCHANGED <<accounts, index, panics, calls, orig>>
    /\ UNCHANGED <<acctVars, diskVars>>

\* AccountManager::refresh, lines 454-473: self.accounts.read().get(*index); on
\* an expired Unverified account self.remove(id) is called with the read guard
\* and the Ref still held; otherwise the second block runs and the call ends.
RfRead(t) ==
    /\ pc[t] = "rf_read"
    /\ IF loc[t].idx >= Len(accounts)
       THEN /\ Return(t)
            /\ UNCHANGED accounts
       ELSE IF expired_unverified(accounts[loc[t].idx + 1], now)
            THEN /\ Goto(t, "rm_get")
                 /\ loc' = [loc EXCEPT ![t].nested = TRUE]
                 /\ accReaders' = [accReaders EXCEPT ![t] = @ + 1]
                 /\ UNCHANGED <<accounts, guards>>
            ELSE /\ accounts' = [accounts EXCEPT ![loc[t].idx + 1] = refresh_account(@, now)]
                 /\ Return(t)
    /\ UNCHANGED <<index, panics, calls, orig>>
    /\ UNCHANGED <<acctVars, diskVars>>

\* AccountManager::refresh, lines 463-473, after self.remove(id) has returned.
\* The nested remove never returns (it waits for the write guard of accounts
\* under the caller's read guard), so no behaviour takes this step.
RfSecond(t) ==
    /\ pc[t] = "rf_second"
    /\ accounts' = IF loc[t].idx < Len(accounts)
                   THEN [accounts EXCEPT ![loc[t].idx + 1] = refresh_account(@, now)]
                   ELSE accounts
    /\ Return(t)
    /\ UNCHANGED <<index, panics, calls, orig>>
    /\ UNCHANGED <<acctVars, diskVars>>

StoreStep(t) ==
    \/ PushLen(t)
    \/ PushInsert(t)
    \/ PushWrite(t)
    \/ RmGet(t)
    \/ RmSide(t)
    \/ RmWrite(t)
    \/ UiClear(t)
    \/ UiRead(t)
    \/ UiInsert(t)
    \/ RaCollect(t)
    \/ RaWrite(t)
    \/ RaTokens(t)
    \/ RfGet(t)
    \/ RfRead(t)

NextStore ==
    \E t \in Threads :
        \/ CallPush(t)
        \/ CallRemove(t)
        \/ CallRefreshAll(t)
        \/ CallRefresh(t)
        \/ StoreStep(t)

SpecStore == InitStore /\ [][NextStore]_vars

\* Two threads call remove(a) and remove(b), a # b both present, on a quiet
\* store; nothing else runs.
InitRemove ==
    /\ acct = Absent
    /\ DiskIdle
    /\ nextToken = 0
    /\ revoked = {}
    /\ swept = {}
    /\ last = NoCall
    /\ now = 0
    /\ accounts \in QuietStores
    /\ index = IndexOf(accounts)
    /\ \E a, b \in DOMAIN index :
          /\ a # b
          /\ loc = [t \in Threads |->
                      Locals("remove", IF t = 1 THEN a ELSE b, Absent, 0, <<>>, 0, 0, FALSE)]
          /\ orig = [accounts |-> accounts, removed |-> {a, b}]
    /\ pc = [t \in Threads |-> "rm_get"]
    /\ accReaders = [t \in Threads |-> 0]
    /\ guards = [t \in Threads |-> <<>>]
    /\ panics = FALSE
    /\ calls = [t \in Threads |-> 1]

NextRemove ==
    \E t \in Threads :
        \/ RmGet(t)
        \/ RmSide(t)
        \/ RmWrite(t)
        \/ UiClear(t)
        \/ UiRead(t)
        \/ UiInsert(t)

SpecRemove == InitRemove /\ [][NextRemove]_vars

\* One thread calls remove(a) while another calls refresh(x), a # x both
\* present, on a quiet store; nothing else runs.
InitLookup ==
    /\ acct = Absent
    /\ DiskIdle
    /\ nextToken = 0
    /\ revoked = {}
    /\ swept = {}
    /\ last = NoCall
    /\ now \in {0, Window}
    /\ accounts \in QuietStores
    /\ index = IndexOf(accounts)
    /\ \E a, x \in DOMAIN index :
          /\ a # x
          /\ loc = [t \in Threads |->
                      IF t = 1
                      THEN Locals("remove", a, Absent, 0, <<>>, 0, 0, FALSE)
                      ELSE Locals("refresh", x, Absent, 0, <<>>, 0, 0, FALSE)]
          /\ orig = [accounts |-> accounts, removed |-> {a}]
    /\ pc = [t \in Threads |-> IF t = 1 THEN "rm_get" ELSE "rf_get"]
    /\ accReaders = [t \in Threads |-> 0]
    /\ guards = [t \in Threads |-> <<>>]
    /\ panics = FALSE
    /\ calls = [t \in Threads |-> 1]

NextLookup ==
    \E t \in Threads :
        \/ RmGet(t)
        \/ RmSide(t)
        \/ RmWrite(t)
        \/ UiClear(t)
        \/ UiRead(t)
        \/ UiInsert(t)
        \/ RfGet(t)
        \/ RfRead(t)

SpecLookup == InitLookup /\ [][NextLookup]_vars

\* One thread calls refresh_all while another calls remove(a) on an account
\* that the sweep has to keep; nothing else runs.
RacePool ==
    AccountPool \cup {Verified(Hash(e), Attributes(e, digest("pw"), 0), {}, VerifyNone) :
                         e \in {"b@i.pkuschool.edu.cn"}}

RaceStores ==
    {v \in UNION {[1..n -> RacePool] : n \in 0..MaxAccounts} :
        \A p, q \in 1..Len(v) : p # q => id(v[p]) # id(v[q])}

InitSweepRace ==
    /\ acct = Absent
    /\ DiskIdle
    /\ nextToken = 0
    /\ revoked = {}
    /\ swept = {}
    /\ last = NoCall
    /\ now \in {0, Window}
    /\ accounts \in RaceStores
    /\ index = IndexOf(accounts)
    /\ \E a \in DOMAIN index :
          /\ ~expired_unverified(accounts[index[a] + 1], now)
          /\ loc = [t \in Threads |->
                      IF t = 1
                      THEN Locals("refresh_all", 0, Absent, 0, <<>>, 0, 0, FALSE)
                      ELSE Locals("remove", a, Absent, 0, <<>>, 0, 0, FALSE)]
          /\ orig = [accounts |-> accounts, removed |-> {a}]
    /\ pc = [t \in Threads |-> IF t = 1 THEN "ra_collect" ELSE "rm_get"]
    /\ accReaders = [t \in Threads |-> 0]
    /\ guards = [t \in Threads |-> <<>>]
    /\ panics = FALSE
    /\ calls = [t \in Threads |-> 1]

NextSweepRace ==
    \E t \in Threads :
        \/ RaCollect(t)
        \/ RaWrite(t)
        \/ RaTokens(t)
        \/ RmGet(t)
        \/ RmSide(t)
        \/ RmWrite(t)
        \/ UiClear(t)
        \/ UiRead(t)
        \/ UiInsert(t)

SpecSweepRace == InitSweepRace /\ [][NextSweepRace]_vars

\* Two threads call push on a quiet store with room for both accounts;
\* nothing else runs.
InitPush ==
    /\ acct = Absent
    /\ DiskIdle
    /\ nextToken = 0
    /\ revoked = {}
    /\ swept = {}
    /\ last = NoCall
    /\ now = 0
    /\ accounts \in QuietStores
    /\ Len(accounts) + 2 <= MaxAccounts
    /\ index = IndexOf(accounts)
    /\ \E a, b \in AccountPool :
          loc = [t \in Threads |->
                   IF t = 1
                   THEN Locals("push", id(a), a, 0, <<>>, 0, 0, FALSE)
                   ELSE Locals("push", id(b), b, 0, <<>>, 0, 0, FALSE)]
    /\ orig = [accounts |-> accounts, removed |-> {}]
    /\ pc = [t \in Threads |-> "push_len"]
    /\ accReaders = [t \in Threads |-> 0]
    /\ guards = [t \in Threads |-> <<>>]
    /\ panics = FALSE
    /\ calls = [t \in Threads |-> 1]

NextPush ==
    \E t \in Threads :
        \/ PushLen(t)
        \/ PushInsert(t)
        \/ PushWrite(t)

SpecPush == InitPush /\ [][NextPush]_vars

\* ------------------------------------------------------- claims on the store
Quiescent == \A t \in Threads : pc[t] = "idle"

\* index maps exactly the ids of the accounts in the collection, each to the
\* position of the account with that id.
IndexConsistent ==
    /\ DOMAIN index = {id(accounts[p]) : p \in 1..Len(accounts)}
    /\ \A p \in 1..Len(accounts) : index[id(accounts[p])] = p - 1

\* C2: whenever no store call is in progress, after calls that all completed
\* without a panic, the index maps exactly the ids of the accounts in the
\* collection, and index[id] = p iff the account at position p has that id.
C2_IndexConsistentAtQuiescence ==
    (Quiescent /\ ~panics) => IndexConsistent

\* C4: refresh(id) on a present, expired Unverified account returns: the call
\* never waits for the write guard of accounts while it holds a read guard of
\* accounts itself, a wait that no other thread can end.
C4_RefreshReturns ==
    \A t \in Threads :
        ~(loc[t].op = "refresh" /\ pc[t] = "rm_write" /\ accReaders[t] > 0)

\* C5: a push of an account whose id is already in the index fails and leaves
\* the collection and the index as they were before the call.
C5_ConflictLeavesStore ==
    [][\A t \in Threads :
          (pc[t] = "push_insert" /\ loc[t].id \in DOMAIN index /\ pc'[t] = "idle")
              => (index' = index /\ accounts' = accounts)]_vars

\* C6: when remove(a) and remove(b) have both returned, neither has panicked
\* and the collection is the original one without the accounts a and b, the
\* others in their original order.
C6_ConcurrentRemovesExact ==
    Quiescent =>
        /\ ~panics
        /\ accounts = SelectSeq(orig.accounts, LAMBDA a : id(a) \notin orig.removed)

\* ------------------------------------------- the store under one caller at a time
\* Each call runs from its first line to its return with no other call running.
StoreOf(v, ix, panic, hang) == [accounts |-> v, index |-> ix, panic |-> panic, hang |-> hang]

\* AccountManager::remove
remove(v, ix, i) ==
    IF i \in DOMAIN ix
    THEN IF ix[i] >= Len(v)
         THEN StoreOf(v, ix, TRUE, FALSE)
         ELSE StoreOf(VecRemove(v, ix[i]), IndexOf(VecRemove(v, ix[i])), FALSE, FALSE)
    ELSE StoreOf(v, IndexOf(v), FALSE, FALSE)

\* AccountManager::refresh_all
refresh_all(v, ix, t0) ==
    LET rm_list == RmList(v, t0)
        r == RemoveListed(v, rm_list, 0)
    IN  IF r.panic
        THEN StoreOf(r.vec, ix, TRUE, FALSE)
        ELSE StoreOf([p \in 1..Len(r.vec) |-> refresh_account(r.vec[p], t0)],
                     IF rm_list # <<>> THEN IndexOf(r.vec) ELSE ix, FALSE, FALSE)

\* AccountManager::refresh; on an expired Unverified account the nested
\* self.remove(id) waits for the write guard under the caller's read guard.
refresh(v, ix, i, t0) ==
    IF i \in DOMAIN ix /\ ix[i] < Len(v)
    THEN IF expired_unverified(v[ix[i] + 1], t0)
         THEN StoreOf(v, ix, FALSE, TRUE)
         ELSE StoreOf([v EXCEPT ![ix[i] + 1] = refresh_account(@, t0)], ix, FALSE, FALSE)
    ELSE StoreOf(v, ix, FALSE, FALSE)

\* The accounts AccountManager::new may load: pending registrations whose
\* window ends at 1 or at Window, and activated accounts with or without
\* tokens and with or without a pending password reset.
LoadedTokens == {{}, {Token(1, 1, 0), Token(2, 0, 0)}}
LoadedVerify(e) ==
    {VerifyNone} \cup {ForgetPassword(Context(e, 100000, x)) : x \in {1, Window}}

\* Attributes of a loaded account; its permissions are two values of the
\* Permission enum.
LoadedAttributes(e) == [Attributes(e, digest("pw"), 1) EXCEPT !.permissions = <<0, 1>>]

LoadedPool ==
    {Unverified(Context(e, 100000, x)) : e \in SchoolEmails, x \in {1, Window}}
        \cup UNION {{Verified(Hash(e), LoadedAttributes(e), k, w) :
                        k \in LoadedTokens, w \in LoadedVerify(e)} : e \in SchoolEmails}

LoadedStores ==
    {v \in UNION {[1..n -> LoadedPool] : n \in 0..MaxAccounts} :
        \A p, q \in 1..Len(v) : p # q => id(v[p]) # id(v[q])}

InitSeq ==
    /\ acct = Absent
    /\ DiskIdle
    /\ nextToken = 0
    /\ revoked = {}
    /\ swept = {}
    /\ last = NoCall
    /\ now = 0
    /\ accounts \in LoadedStores
    /\ index = IndexOf(accounts)
    /\ pc = [t \in Threads |-> "idle"]
    /\ loc = [t \in Threads |-> NoLocals]
    /\ accReaders = [t \in Threads |-> 0]
    /\ guards = [t \in Threads |-> <<>>]
    /\ panics = FALSE
    /\ calls = [t \in Threads |-> 0]
    /\ orig = NoOrig

\* The effect of a whole call on the store; orig keeps the collection the call
\* began with, last the call.  A call that hangs leaves its thread waiting.
SeqCall(op, i, r) ==
    /\ pc[1] = "idle"
    /\ accounts' = r.accounts
    /\ index' = r.index
    /\ panics' = (panics \/ r.panic)
    /\ pc' = [pc EXCEPT ![1] = IF r.hang THEN "rm_write" ELSE "idle"]
    /\ accReaders' = [accReaders EXCEPT ![1] = IF r.hang THEN 1 ELSE 0]
    /\ last' = Call(op, IF r.panic THEN "Panic" ELSE "Ok", Absent, i, "", 0)
    /\ orig' = [accounts |-> accounts, removed |-> {}]
    /\ UNCHANGED <<loc, guards, calls>>
    /\ UNCHANGED <<acct, now, nextToken, revoked, swept>>
    /\ UNCHANGED diskVars

SeqRefreshAll == SeqCall("refresh_all", 0, refresh_all(accounts, index, now))

SeqRefresh == \E i \in StoreIds : SeqCall("refresh", i, refresh(accounts, index, i, now))

SeqRemove == \E i \in StoreIds : SeqCall("remove", i, remove(accounts, index, i))

SeqTick ==
    /\ now < MaxTime
    /\ now' = now + 1
    /\ last' = NoCall
    /\ UNCHANGED <<acct, nextToken, revoked, swept>>
    /\ UNCHANGED <<storeVars, diskVars>>

NextSeq ==
    \/ SeqRefreshAll
    \/ SeqRefresh
    \/ SeqRemove
    \/ SeqTick

SpecSeq == InitSeq /\ [][NextSeq]_vars

\* The account with id i in the collection v is found through the index ix.
Findable(v, ix, i) ==
    /\ i \in DOMAIN ix
    /\ ix[i] < Len(v)
    /\ id(v[ix[i] + 1]) = i

\* C11: refresh_all run while an Unverified account's context has not expired
\* leaves that account in the collection, findable by its id; run once the
\* context has expired it removes the account, and its id is then in neither
\* the collection nor the index.
C11_SweepRemovesExactlyExpired ==
    last.op = "refresh_all" =>
        \A p \in 1..Len(orig.accounts) :
            LET a == orig.accounts[p] IN
            a.tag = "Unverified" =>
                IF is_expired(a.cxt, now)
                THEN /\ id(a) \notin DOMAIN index
                     /\ \A q \in 1..Len(accounts) : id(accounts[q]) # id(a)
                ELSE /\ Findable(accounts, index, id(a))
                     /\ accounts[index[id(a)] + 1] = a

\* A sweep has run over a collection holding both an expired and an unexpired
\* Unverified account.
C11_Witness ==
    /\ last.op = "refresh_all"
    /\ \E p, q \in 1..Len(orig.accounts) :
          /\ orig.accounts[p].tag = "Unverified" /\ is_expired(orig.accounts[p].cxt, now)
          /\ orig.accounts[q].tag = "Unverified" /\ ~is_expired(orig.accounts[q].cxt, now)
    /\ Len(accounts) < Len(orig.accounts)

\* C13: the sweep is idempotent.  In the state a refresh_all has left, a second
\* refresh_all at the same time changes nothing: the collection (with every
\* account's token set and verify field) and the index stay as they are.
C13_SweepIdempotent ==
    (last.op = "refresh_all" /\ last.res = "Ok") =>
        refresh_all(accounts, index, now) = StoreOf(accounts, index, FALSE, FALSE)

\* A sweep has removed an account and has changed a Verified account it kept.
C13_Witness ==
    /\ last.op = "refresh_all"
    /\ Len(accounts) < Len(orig.accounts)
    /\ \E p \in 1..Len(accounts) :
          /\ accounts[p].tag = "Verified"
          /\ \A q \in 1..Len(orig.accounts) : orig.accounts[q] # accounts[p]

\* C14: while remove(a) runs, the lookup of another id x through the index
\* (index.get(x), then the positional access to the collection, as refresh(x)
\* makes it) yields the account whose id is x, or nothing: the positional access
\* never returns an account with another id.
C14_LookupResolvesOwnId ==
    [][\A t \in Threads :
          (pc[t] = "rf_read" /\ pc'[t] # "rf_read" /\ loc[t].idx < Len(accounts))
              => id(accounts[loc[t].idx + 1]) = loc[t].id]_vars

\* Thread t holds a Ref into the index and waits for the write guard of
\* accounts, which thread u's read guard keeps from it.
WaitsForWrite(t, u) ==
    /\ pc[t] = "rm_write"
    /\ guards[t] # <<>>
    /\ accReaders[u] > 0

\* Thread u holds a read guard of accounts and waits to insert into a shard of
\* the index that a Ref of thread t keeps read-locked.
WaitsForShard(u, t) ==
    /\ pc[u] = "ui_insert"
    /\ accReaders[u] > 0
    /\ loc[u].k < Len(accounts)
    /\ \E j \in 1..Len(guards[t]) :
          ShardOf(guards[t][j]) = ShardOf(id(accounts[loc[u].k + 1]))

\* C15: concurrent remove and update_index calls never reach a state in which
\* one thread holds an index entry guard and waits for the write guard of the
\* collection while the other holds the read guard of the collection and waits
\* to write the index where that guard is held; from such a state neither call
\* returns.
C15_NoCircularWait ==
    \A t, u \in Threads : ~(t # u /\ WaitsForWrite(t, u) /\ WaitsForShard(u, t))

\* The accounts of v the sweep at time t0 has to keep, in their order.
Kept(v, t0) == SelectSeq(v, LAMBDA a : ~expired_unverified(a, t0))

\* C16: refresh_all removes only expired Unverified accounts, also while
\* remove(id) or an insert runs on other accounts: the removals it makes under
\* the write guard drop no Verified account and no Unverified account whose
\* context has not expired.
C16_SweepDropsOnlyExpired ==
    [][\A t \in Threads :
          (pc[t] = "ra_write" /\ pc'[t] # "ra_write")
              => Kept(accounts', now) = Kept(accounts, now)]_vars

\* C17: two concurrent pushes are atomic with respect to each other.  When
\* both calls have ended without a failed assertion, no two accounts of the
\* collection share an id (two pushes of one id never both succeed), and the
\* index maps each id to the position of the account with that id, distinct
\* ids to distinct positions.
C17_ConcurrentPushesAtomic ==
    (Quiescent /\ ~panics) =>
        /\ \A p, q \in 1..Len(accounts) : p # q => id(accounts[p]) # id(accounts[q])
        /\ \A i, j \in DOMAIN index : i # j => index[i] # index[j]
        /\ IndexConsistent

\* C18: with no other call running, the batch removal of refresh_all is exact.
\* Whatever the collection and whichever of its accounts are expired Unverified
\* ones (adjacent, first, last), the removal loop ends without a position out
\* of range and leaves the prior sequence without the expired Unverified
\* accounts, the others in their original order.
C18_BatchRemovalExact ==
    last.op = "refresh_all" =>
        /\ last.res = "Ok"
        /\ ~RemoveListed(orig.accounts, RmList(orig.accounts, now), 0).panic
        /\ RemoveListed(orig.accounts, RmList(orig.accounts, now), 0).vec
               = Kept(orig.accounts, now)
        /\ [p \in 1..Len(accounts) |-> id(accounts[p])]
               = [p \in 1..Len(Kept(orig.accounts, now)) |-> id(Kept(orig.accounts, now)[p])]

\* A sweep has removed two accounts, the first of the collection among them,
\* and has kept a later one.
C18_Witness ==
    /\ last.op = "refresh_all"
    /\ Len(orig.accounts) = 3
    /\ Len(accounts) = 1
    /\ expired_unverified(orig.accounts[1], now)
    /\ accounts[1].tag = "Verified"

\* The accounts the last call found, those it had to keep, position by position.
PreSweep == IF last.op = "refresh_all" THEN Kept(orig.accounts, now) ELSE orig.accounts

\* The last call swept the account a: refresh_all sweeps all, refresh(id) one.
SweptBy(a) == last.op = "refresh_all" \/ (last.op = "refresh" /\ last.code = id(a))

\* C19: after refresh_all, or refresh(id), has returned, a Verified account it
\* swept whose ForgetPassword context had expired has verify = None, and a
\* reset_password on it fails with PermissionDenied; an unexpired ForgetPassword
\* context is kept as it was.  The email, password hash, permissions and id of
\* a Verified account are as before the call, and an account the call did not
\* sweep is unchanged.
C19_SweepClearsExpiredRequests ==
    (last.op \in {"refresh_all", "refresh"} /\ last.res = "Ok" /\ pc[1] = "idle") =>
        /\ Len(accounts) = Len(PreSweep)
        /\ \A p \in 1..Len(PreSweep) :
              LET a == PreSweep[p]
                  b == accounts[p]
              IN  a.tag = "Verified" =>
                    /\ b.tag = "Verified"
                    /\ b.id = a.id
                    /\ b.attributes.email = a.attributes.email
                    /\ b.attributes.password_sha = a.attributes.password_sha
                    /\ b.attributes.permissions = a.attributes.permissions
                    /\ b.attributes = a.attributes
                    /\ IF ~SweptBy(a)
                       THEN b = a
                       ELSE IF a.verify.tag = "ForgetPassword"
                            THEN IF is_expired(a.verify.cxt, now)
                                 THEN /\ b.verify = VerifyNone
                                      /\ \A password \in Passwords :
                                            verify(b, a.verify.cxt.code,
                                                   ResetPassword(password)).res
                                                = "PermissionDenied"
                                 ELSE b.verify = a.verify
                            ELSE b.verify = VerifyNone

\* A call has swept two Verified accounts with pending password resets, one
\* expired and one not.
C19_Witness ==
    /\ last.op = "refresh_all"
    /\ last.res = "Ok"
    /\ \E p, q \in 1..Len(PreSweep) :
          /\ PreSweep[p].tag = "Verified"
          /\ PreSweep[p].verify.tag = "ForgetPassword"
          /\ is_expired(PreSweep[p].verify.cxt, now)
          /\ accounts[p].verify = VerifyNone
          /\ PreSweep[q].tag = "Verified"
          /\ PreSweep[q].verify.tag = "ForgetPassword"
          /\ ~is_expired(PreSweep[q].verify.cxt, now)
          /\ accounts[q].verify = PreSweep[q].verify

\* ------------------------------------------------------ the durable store
\* The file ./data/accounts/{id}.{ext} and its content.
File(i, ext, data) == [id |-> i, ext |-> ext, data |-> data]

\* toml::to_string of an account, and toml::from_str of a file's content.
to_string(a) == [toml |-> a]
from_str(data) == data.toml

\* The task Account::save spawns: create ./data/accounts/{id}.toml and write
\* the serialized account.
SaveTask(a) == [kind |-> "write", id |-> id(a), ext |-> "toml", data |-> to_string(a)]

\* The task Account::remove spawns: remove_file ./data/accounts/{id}.json.
RemoveTask(a) == [kind |-> "remove_file", id |-> id(a), ext |-> "json", data |-> to_string(Absent)]

\* File::create and write_all: the file at the path holds the data.
WriteFile(d, k) == {f \in d : ~(f.id = k.id /\ f.ext = k.ext)} \cup {File(k.id, k.ext, k.data)}

\* remove_file: the file at the path is gone; Err when there is none.
FileExists(d, k) == \E f \in d : f.id = k.id /\ f.ext = k.ext
RemoveFile(d, k) == {f \in d : ~(f.id = k.id /\ f.ext = k.ext)}

\* The collections AccountManager::new builds from the files: read_dir yields
\* every file of the directory once, in any order.
Loaded(d) ==
    {v \in [1..Cardinality(d) -> {from_str(f.data) : f \in d}] :
        \A f \in d : \E p \in 1..Cardinality(d) : v[p] = from_str(f.data)}

\* The store as AccountManager::new has loaded it from the files that earlier
\* saves wrote.
InitDurable ==
    /\ acct = Absent
    /\ nextToken = 0
    /\ revoked = {}
    /\ swept = {}
    /\ last = NoCall
    /\ now = 0
    /\ accounts \in QuietStores
    /\ index = IndexOf(accounts)
    /\ pc = [t \in Threads |-> "idle"]
    /\ loc = [t \in Threads |-> NoLocals]
    /\ accReaders = [t \in Threads |-> 0]
    /\ guards = [t \in Threads |-> <<>>]
    /\ panics = FALSE
    /\ calls = [t \in Threads |-> 0]
    /\ orig = NoOrig
    /\ disk = {File(id(accounts[p]), "toml", to_string(accounts[p])) : p \in 1..Len(accounts)}
    /\ tasks = {}
    /\ saved = {}

\* Account::save on an account of the store.
DurSave ==
    \E p \in 1..Len(accounts) :
        /\ tasks' = tasks \cup {SaveTask(accounts[p])}
        /\ saved' = saved \cup {id(accounts[p])}
        /\ orig' = [orig EXCEPT !.removed = @ \ {id(accounts[p])}]
        /\ last' = Call("save", "Ok", Absent, id(accounts[p]), "", 0)
        /\ UNCHANGED <<accounts, index, pc, loc, accReaders, guards, panics, calls, disk>>
        /\ UNCHANGED <<acct, now, nextToken, revoked, swept>>

\* AccountManager::remove with no other call running; on an account it finds
\* it calls Account::remove (line 483), which spawns the task.
DurRemove ==
    \E i \in StoreIds :
        LET r == remove(accounts, index, i)
            found == i \in DOMAIN index /\ index[i] < Len(accounts)
        IN  /\ accounts' = r.accounts
            /\ index' = r.index
            /\ panics' = (panics \/ r.panic)
            /\ tasks' = IF found THEN tasks \cup {RemoveTask(accounts[index[i] + 1])} ELSE tasks
            /\ orig' = IF found THEN [orig EXCEPT !.removed = @ \cup {i}] ELSE orig
            /\ last' = Call("remove", IF r.panic THEN "Panic" ELSE "Ok", Absent, i, "", 0)
            /\ UNCHANGED <<pc, loc, accReaders, guards, calls, disk, saved>>
            /\ UNCHANGED <<acct, now, nextToken, revoked, swept>>

\* The runtime runs one of the spawned tasks; they run in any order.  The
\* unwrap of a failed remove_file panics inside the task, which ends it.
RunTask ==
    \E k \in tasks :
        /\ tasks' = tasks \ {k}
        /\ disk' = IF k.kind = "write" THEN WriteFile(disk, k) ELSE RemoveFile(disk, k)
        /\ last' = Call(k.kind, IF k.kind = "remove_file" /\ ~FileExists(disk, k)
                                THEN "Panic" ELSE "Ok", Absent, k.id, "", 0)
        /\ UNCHANGED <<accounts, index, pc, loc, accReaders, guards, panics, calls, orig, saved>>
        /\ UNCHANGED <<acct, now, nextToken, revoked, swept>>

\* The process is restarted once the background tasks have run:
\* AccountManager::new loads the store from the files.
Restart ==
    /\ tasks = {}
    /\ accounts' \in Loaded(disk)
    /\ index' = IndexOf(accounts')
    /\ panics' = FALSE
    /\ last' = Call("restart", "Ok", Absent, 0, "", 0)
    /\ UNCHANGED <<pc, loc, accReaders, guards, calls, orig, disk, tasks, saved>>
    /\ UNCHANGED <<acct, now, nextToken, revoked, swept>>

NextDurable ==
    \/ DurSave
    \/ DurRemove
    \/ RunTask
    \/ Restart

SpecDurable == InitDurable /\ [][NextDurable]_vars

\* C20: deletion is durable.  For an account that save() was called on and
\* that the store's remove(id) then removed, once the background tasks have
\* run there is no file under the key save wrote (./data/accounts/{id}.toml),
\* and a restart does not bring the account back into the store.
C20_RemovedStaysRemoved ==
    tasks = {} =>
        \A i \in orig.removed \cap saved :
            /\ ~(\E f \in disk : f.id = i /\ f.ext = "toml")
            /\ \A p \in 1..Len(accounts) : id(accounts[p]) # i

====
